---- MODULE Spec2Model ----
(***************************************************************************)
(* A model of the to-do / daily-notes application: the localStorage hook   *)
(* (useLocalStorage), the two state containers built on it (useTodos,      *)
(* useNotes) and the Load More pagination hook (usePagination).            *)
(*                                                                         *)
(* JavaScript strings are sequences of one-character strings, so that      *)
(* trim(), JSON.stringify() and JSON.parse() are computed character by     *)
(* character.  A JavaScript value that goes through JSON is a tagged       *)
(* record (JNull, JBool, JNum, JStr, JArr, JObj).                          *)
(***************************************************************************)
EXTENDS Integers, Sequences, FiniteSets, TLC

VARIABLES
  \* ---- the application in one view (Spec)
  storage,      \* window.localStorage: key -> item
  todos,        \* useTodos: storedValue of useLocalStorage('todos', [])
  notes,        \* useNotes: storedValue of useLocalStorage("notes", [])
  clock,        \* the last value Date.now() returned
  last,         \* what the last handler did (observation of the call)
  writeFailed,  \* how many times localStorage.setItem has thrown in this session
  retired,      \* identifiers of records this session has deleted
  \* ---- usePagination (SpecPage)
  allItems,     \* the source list handed to usePagination
  currentPage,  \* useState(1)
  itemsPerPage, \* options.itemsPerPage ?? 5
  \* ---- several views on one key (SpecSync)
  shared,       \* the localStorage item under the key
  mem,          \* view -> storedValue
  inbox,        \* view -> queue of StorageEvents not yet dispatched to it
  \* ---- useLocalStorage on its own (SpecStore)
  item,         \* the localStorage item under the key
  written,      \* <<>> or <<v>>: the value of the last setItem that succeeded
  view,         \* <<>> (not mounted) or <<storedValue>>
  \* ---- the filtered view and the counts of useTodos (SpecView)
  filter,       \* useState<FilterType>('all')
  searchQuery   \* useState('')

vars == <<storage, todos, notes, clock, last, writeFailed, retired,
          allItems, currentPage, itemsPerPage, shared, mem, inbox, item, written, view,
          filter, searchQuery>>

(***************************************************************************)
(* Bounds of the model.                                                    *)
(***************************************************************************)
MaxLen   == 2   \* records in the two containers together
MsPerDay == 2   \* Date.now() units in one calendar day
MaxClock == 2   \* Date.now() ranges over 1..MaxClock
MaxItems == 13  \* length of a paginated source list
MaxPageSize == 5  \* options.itemsPerPage ranges over 1..MaxPageSize
MaxFails == 1   \* setItem calls that throw in a run
MaxViews == 2   \* views open on the same storage
MaxInbox == 1   \* StorageEvents a view has not yet handled
MaxTodos == 8   \* records in the two containers of the page together

(***************************************************************************)
(* Strings.                                                                *)
(***************************************************************************)
Min(a, b) == IF a <= b THEN a ELSE b
Max(a, b) == IF a >= b THEN a ELSE b

SubStr(s, a, b) == IF a > b THEN <<>> ELSE SubSeq(s, a, b)

IsSpace(c) == c = " "

RECURSIVE TrimStart(_)
TrimStart(s) ==
  IF s = <<>> THEN <<>>
  ELSE IF IsSpace(Head(s)) THEN TrimStart(Tail(s)) ELSE s

RECURSIVE TrimEnd(_)
TrimEnd(s) ==
  IF s = <<>> THEN <<>>
  ELSE IF IsSpace(s[Len(s)]) THEN TrimEnd(SubStr(s, 1, Len(s) - 1)) ELSE s

\* String.prototype.trim
Trim(s) == TrimEnd(TrimStart(s))

DigitChar == <<"0", "1", "2", "3", "4", "5", "6", "7", "8", "9">>
IsDigit(c) == \E d \in 1..10 : DigitChar[d] = c
DigitVal(c) == (CHOOSE d \in 1..10 : DigitChar[d] = c) - 1

\* Number -> decimal text, as template literals and JSON.stringify write it
RECURSIVE Digits(_)
Digits(n) ==
  IF n < 10 THEN <<DigitChar[n + 1]>>
  ELSE Digits(n \div 10) \o <<DigitChar[(n % 10) + 1]>>

(***************************************************************************)
(* JSON values, JSON.stringify, JSON.parse.                                *)
(***************************************************************************)
JNull    == [t |-> "null"]
JBool(b) == [t |-> "bool", b |-> b]
JNum(n)  == [t |-> "num", n |-> n]
JStr(s)  == [t |-> "str", s |-> s]
JArr(a)  == [t |-> "arr", a |-> a]
JObj(o)  == [t |-> "obj", o |-> o]   \* o: sequence of <<key, value>>, keys distinct

Quote     == "\""
Backslash == "\\"

\* a string's characters put between the quotes as they are
EscapeNothing(s) == s

\* a string's characters inside its JSON quotes: " and \ are escaped
RECURSIVE Escape(_)
Escape(s) ==
  IF s = <<>> THEN <<>>
  ELSE (IF Head(s) \in {Quote, Backslash} THEN <<Backslash, Head(s)>>
        ELSE <<Head(s)>>) \o Escape(Tail(s))

QuoteStr(s) == <<Quote>> \o Escape(s) \o <<Quote>>

RECURSIVE Stringify(_)
RECURSIVE StringifyElems(_)
RECURSIVE StringifyMembers(_)
StringifyElems(a) ==
  IF a = <<>> THEN <<>>
  ELSE Stringify(Head(a))
       \o (IF Len(a) > 1 THEN <<",">> ELSE <<>>) \o StringifyElems(Tail(a))
StringifyMembers(o) ==
  IF o = <<>> THEN <<>>
  ELSE QuoteStr(Head(o)[1]) \o <<":">> \o Stringify(Head(o)[2])
       \o (IF Len(o) > 1 THEN <<",">> ELSE <<>>) \o StringifyMembers(Tail(o))
\* JSON.stringify(value)
Stringify(v) ==
  CASE v.t = "null" -> <<"n", "u", "l", "l">>
    [] v.t = "bool" -> IF v.b THEN <<"t", "r", "u", "e">>
                       ELSE <<"f", "a", "l", "s", "e">>
    [] v.t = "num"  -> Digits(v.n)
    [] v.t = "str"  -> QuoteStr(v.s)
    [] v.t = "arr"  -> <<"[">> \o StringifyElems(v.a) \o <<"]">>
    [] v.t = "obj"  -> <<"{">> \o StringifyMembers(v.o) \o <<"}">>

\* A parse step answers [ok, v, i]: success, the value, the next position.
Fail == [ok |-> FALSE, v |-> JNull, i |-> 0]
Got(v, i) == [ok |-> TRUE, v |-> v, i |-> i]

RECURSIVE SkipWs(_, _)
SkipWs(s, i) == IF i <= Len(s) /\ IsSpace(s[i]) THEN SkipWs(s, i + 1) ELSE i

IsAt(s, i, w) == i + Len(w) - 1 <= Len(s) /\ SubStr(s, i, i + Len(w) - 1) = w

RECURSIVE ParseDigits(_, _, _)
ParseDigits(s, i, acc) ==
  IF i <= Len(s) /\ IsDigit(s[i])
  THEN ParseDigits(s, i + 1, acc * 10 + DigitVal(s[i]))
  ELSE Got(JNum(acc), i)

\* a number: 0, or digits that do not start with 0
ParseNumber(s, i) ==
  IF s[i] = "0"
  THEN (IF i + 1 <= Len(s) /\ IsDigit(s[i + 1]) THEN Fail ELSE Got(JNum(0), i + 1))
  ELSE ParseDigits(s, i, 0)

\* the characters after an opening quote, up to the closing one
RECURSIVE ParseChars(_, _, _)
ParseChars(s, i, acc) ==
  IF i > Len(s) THEN Fail
  ELSE IF s[i] = Quote THEN Got(JStr(acc), i + 1)
  ELSE IF s[i] = Backslash
       THEN (IF i + 1 <= Len(s) /\ s[i + 1] \in {Quote, Backslash}
             THEN ParseChars(s, i + 2, Append(acc, s[i + 1]))
             ELSE Fail)
  ELSE ParseChars(s, i + 1, Append(acc, s[i]))

\* a later member with the same key replaces the earlier one's value
PutMember(o, k, v) ==
  IF \E j \in 1..Len(o) : o[j][1] = k
  THEN [j \in 1..Len(o) |-> IF o[j][1] = k THEN <<k, v>> ELSE o[j]]
  ELSE Append(o, <<k, v>>)

RECURSIVE ParseValue(_, _)
RECURSIVE ParseElems(_, _, _)
RECURSIVE ParseMembers(_, _, _)
\* after "[" or ",": one element, then "," or "]"
ParseElems(s, i, acc) ==
  LET e == ParseValue(s, i) IN
  IF ~e.ok THEN Fail
  ELSE LET j == SkipWs(s, e.i) IN
       IF j > Len(s) THEN Fail
       ELSE IF s[j] = "," THEN ParseElems(s, j + 1, Append(acc, e.v))
       ELSE IF s[j] = "]" THEN Got(JArr(Append(acc, e.v)), j + 1)
       ELSE Fail
\* after "{" or ",": one "key": value, then "," or "}"
ParseMembers(s, i, acc) ==
  LET k == SkipWs(s, i) IN
  IF k > Len(s) \/ s[k] # Quote THEN Fail
  ELSE LET key == ParseChars(s, k + 1, <<>>) IN
       IF ~key.ok THEN Fail
       ELSE LET c == SkipWs(s, key.i) IN
            IF c > Len(s) \/ s[c] # ":" THEN Fail
            ELSE LET e == ParseValue(s, c + 1) IN
                 IF ~e.ok THEN Fail
                 ELSE LET j == SkipWs(s, e.i)
                          o == PutMember(acc, key.v.s, e.v) IN
                      IF j > Len(s) THEN Fail
                      ELSE IF s[j] = "," THEN ParseMembers(s, j + 1, o)
                      ELSE IF s[j] = "}" THEN Got(JObj(o), j + 1)
                      ELSE Fail
ParseValue(s, i0) ==
  LET i == SkipWs(s, i0) IN
  IF i > Len(s) THEN Fail
  ELSE IF IsAt(s, i, <<"n", "u", "l", "l">>) THEN Got(JNull, i + 4)
  ELSE IF IsAt(s, i, <<"t", "r", "u", "e">>) THEN Got(JBool(TRUE), i + 4)
  ELSE IF IsAt(s, i, <<"f", "a", "l", "s", "e">>) THEN Got(JBool(FALSE), i + 5)
  ELSE IF IsDigit(s[i]) THEN ParseNumber(s, i)
  ELSE IF s[i] = Quote THEN ParseChars(s, i + 1, <<>>)
  ELSE IF s[i] = "["
       THEN (LET j == SkipWs(s, i + 1) IN
             IF j <= Len(s) /\ s[j] = "]" THEN Got(JArr(<<>>), j + 1)
             ELSE ParseElems(s, i + 1, <<>>))
  ELSE IF s[i] = "{"
       THEN (LET j == SkipWs(s, i + 1) IN
             IF j <= Len(s) /\ s[j] = "}" THEN Got(JObj(<<>>), j + 1)
             ELSE ParseMembers(s, i + 1, <<>>))
  ELSE Fail

\* JSON.parse(text): [ok |-> FALSE] stands for the SyntaxError it throws
JSONParse(s) ==
  LET r == ParseValue(s, 1) IN
  IF r.ok /\ SkipWs(s, r.i) > Len(s) THEN [ok |-> TRUE, v |-> r.v]
  ELSE [ok |-> FALSE, v |-> JNull]

(***************************************************************************)
(* useLocalStorage: the part shared by every view of every key.            *)
(***************************************************************************)
\* A localStorage item is <<>> (getItem answers null) or <<x>>, where x is
\* [raw |-> text], a text as it stands, or [json |-> v], the text
\* JSON.stringify(v): the text is computed where it is read.
Raw(text) == [raw |-> text]
TextOf(x) == IF "raw" \in DOMAIN x THEN x.raw ELSE Stringify(x.json)

\* useState(() => { ... }): the lazy initial state.  it is what getItem
\* answered; readOk = FALSE is getItem throwing.
ReadInitial(it, initialValue, readOk) ==
  IF ~readOk THEN initialValue
  ELSE IF it = <<>> \/ TextOf(it[1]) = <<>> THEN initialValue
  ELSE LET p == JSONParse(TextOf(it[1])) IN
       IF p.ok THEN p.v ELSE initialValue

\* setValue that leaves the item as it is
WriteItemSkipped(it, valueToStore, ok) == it

\* window.localStorage.setItem(key, JSON.stringify(valueToStore)) inside the
\* try of setValue: the item afterwards.  ok = FALSE is setItem throwing.
WriteItem(it, valueToStore, ok) ==
  IF ok THEN <<[json |-> valueToStore]>> ELSE it

\* handleStorageChange that puts the notified records before the local ones
HandleStorageChangeMerging(stored, key, e) ==
  IF e.key = key /\ e.newValue # <<>> /\ TextOf(e.newValue[1]) # <<>>
  THEN LET p == JSONParse(TextOf(e.newValue[1])) IN
       IF p.ok THEN JArr(p.v.a \o stored.a) ELSE stored
  ELSE stored

\* handleStorageChange: the storedValue after a StorageEvent e is dispatched
HandleStorageChange(stored, key, e) ==
  IF e.key = key /\ e.newValue # <<>> /\ TextOf(e.newValue[1]) # <<>>
  THEN LET p == JSONParse(TextOf(e.newValue[1])) IN
       IF p.ok THEN p.v ELSE stored
  ELSE stored

(***************************************************************************)
(* Records and their JSON form.                                            *)
(***************************************************************************)
K_id          == <<"i", "d">>
K_text        == <<"t", "e", "x", "t">>
K_completed   == <<"c", "o", "m", "p", "l", "e", "t", "e", "d">>
K_createdAt   == <<"c", "r", "e", "a", "t", "e", "d", "A", "t">>
K_updatedAt   == <<"u", "p", "d", "a", "t", "e", "d", "A", "t">>
K_content     == <<"c", "o", "n", "t", "e", "n", "t">>
K_date        == <<"d", "a", "t", "e">>
K_converted   == <<"c", "o", "n", "v", "e", "r", "t", "e", "d", "T", "o", "T", "o", "d", "o">>

\* the value of member k of a parsed object
Member(o, k) == o[CHOOSE j \in 1..Len(o) : o[j][1] = k][2]

\* interface Todo, as JSON.stringify walks it (the order the literal gives)
TodoToJSON(t) ==
  JObj(<< <<K_id, JStr(t.id)>>, <<K_text, JStr(t.text)>>,
          <<K_completed, JBool(t.completed)>>,
          <<K_createdAt, JStr(t.createdAt)>>, <<K_updatedAt, JStr(t.updatedAt)>> >>)
TodoOfJSON(j) ==
  [id |-> Member(j.o, K_id).s, text |-> Member(j.o, K_text).s,
   completed |-> Member(j.o, K_completed).b,
   createdAt |-> Member(j.o, K_createdAt).s,
   updatedAt |-> Member(j.o, K_updatedAt).s]
TodosToJSON(l) == JArr([i \in 1..Len(l) |-> TodoToJSON(l[i])])
TodosOfJSON(j) == [i \in 1..Len(j.a) |-> TodoOfJSON(j.a[i])]

\* interface Note
NoteToJSON(n) ==
  JObj(<< <<K_id, JStr(n.id)>>, <<K_content, JStr(n.content)>>,
          <<K_date, JStr(n.date)>>,
          <<K_createdAt, JStr(n.createdAt)>>, <<K_updatedAt, JStr(n.updatedAt)>>,
          <<K_converted, JBool(n.convertedToTodo)>> >>)
NoteOfJSON(j) ==
  [id |-> Member(j.o, K_id).s, content |-> Member(j.o, K_content).s,
   date |-> Member(j.o, K_date).s,
   createdAt |-> Member(j.o, K_createdAt).s,
   updatedAt |-> Member(j.o, K_updatedAt).s,
   convertedToTodo |-> Member(j.o, K_converted).b]
NotesToJSON(l) == JArr([i \in 1..Len(l) |-> NoteToJSON(l[i])])
NotesOfJSON(j) == [i \in 1..Len(j.a) |-> NoteOfJSON(j.a[i])]

(***************************************************************************)
(* Time and identifiers.                                                   *)
(***************************************************************************)
\* new Date().toISOString(): the instant as text; later instants give
\* different texts
ToISOString(now) == <<"T">> \o Digits(now) \o <<"Z">>

\* new Date(iso).getTime()
GetTime(iso) == ParseDigits(iso, 2, 0).v.n

\* Math.random().toString(36).substr(2, 9): the outcomes told apart
RandomSuffixes == { <<"a">>, <<"k">> }

\* generateId: `${Date.now()}-${Math.random().toString(36).substr(2, 9)}`
generateId(now, suffix) == Digits(now) \o <<"-">> \o suffix

\* getTodayDate: the local date as YYYY-MM-DD (padStart(2, "0") on the day)
PadStart2(s) == IF Len(s) < 2 THEN <<"0">> \o s ELSE s
getTodayDate(now) ==
  <<"2", "0", "2", "5", "-", "0", "1", "-">> \o PadStart2(Digits(1 + (now \div MsPerDay)))

(***************************************************************************)
(* useTodos: the updater each operation hands to setTodos, applied to      *)
(* prev.  A text that is empty after trim() makes addTodo and editTodo     *)
(* return before setTodos is called.                                       *)
(***************************************************************************)
MapSeq(l, F(_)) == [i \in 1..Len(l) |-> F(l[i])]

Ids(l) == {l[i].id : i \in 1..Len(l)}

newTodo(text, now, suffix) ==
  [id |-> generateId(now, suffix), text |-> Trim(text), completed |-> FALSE,
   createdAt |-> ToISOString(now), updatedAt |-> ToISOString(now)]

\* prev => [newTodo, ...prev]
AddTodoUpdate(prev, text, now, suffix) == <<newTodo(text, now, suffix)>> \o prev

\* prev.map(todo => todo.id === id ? {...todo, completed: !todo.completed, updatedAt} : todo)
ToggleTodoUpdate(prev, id, now) ==
  LET F(t) == IF t.id = id
              THEN [t EXCEPT !.completed = ~t.completed, !.updatedAt = ToISOString(now)]
              ELSE t
  IN MapSeq(prev, F)

\* a delete that drops the last record when no record has the id
DeleteUpdateOrLast(prev, id) ==
  IF id \in Ids(prev) \/ prev = <<>>
  THEN SelectSeq(prev, LAMBDA r : r.id # id)
  ELSE SubStr(prev, 1, Len(prev) - 1)

\* prev.filter(todo => todo.id !== id)
DeleteUpdate(prev, id) == SelectSeq(prev, LAMBDA r : r.id # id)

\* editTodo storing newText as typed instead of trimmedText
EditTodoUpdateUntrimmed(prev, id, newText, now) ==
  [i \in 1..Len(prev) |->
     IF prev[i].id = id
     THEN [prev[i] EXCEPT !.text = newText, !.updatedAt = ToISOString(now)]
     ELSE prev[i]]

\* prev.map(todo => todo.id === id ? {...todo, text: trimmedText, updatedAt} : todo)
EditTodoUpdate(prev, id, newText, now) ==
  LET F(t) == IF t.id = id
              THEN [t EXCEPT !.text = Trim(newText), !.updatedAt = ToISOString(now)]
              ELSE t
  IN MapSeq(prev, F)

\* prev.filter(todo => !todo.completed)
\* clearCompleted that keeps the completed tasks and drops the others
ClearCompletedUpdateInverted(prev) == SelectSeq(prev, LAMBDA t : t.completed)

ClearCompletedUpdate(prev) == SelectSeq(prev, LAMBDA t : ~t.completed)

(***************************************************************************)
(* useNotes.                                                               *)
(***************************************************************************)
newNote(content, now, suffix) ==
  [id |-> generateId(now, suffix), content |-> Trim(content),
   date |-> getTodayDate(now),
   createdAt |-> ToISOString(now), updatedAt |-> ToISOString(now),
   convertedToTodo |-> FALSE]

AddNoteUpdate(prev, content, now, suffix) == <<newNote(content, now, suffix)>> \o prev

\* updateNote that also moves the note to the day of the update
UpdateNoteUpdateRedated(prev, id, content, now) ==
  [i \in 1..Len(prev) |->
     IF prev[i].id = id
     THEN [prev[i] EXCEPT !.content = Trim(content), !.updatedAt = ToISOString(now),
                          !.date = getTodayDate(now)]
     ELSE prev[i]]

UpdateNoteUpdate(prev, id, content, now) ==
  LET F(n) == IF n.id = id
              THEN [n EXCEPT !.content = Trim(content), !.updatedAt = ToISOString(now)]
              ELSE n
  IN MapSeq(prev, F)

MarkAsConvertedUpdate(prev, id, now) ==
  LET F(n) == IF n.id = id
              THEN [n EXCEPT !.convertedToTodo = TRUE, !.updatedAt = ToISOString(now)]
              ELSE n
  IN MapSeq(prev, F)

\* allNotes: notes.sort((a, b) => time(b.createdAt) - time(a.createdAt)), which
\* sorts the state array itself, in place and stably, at the render that follows
RECURSIVE InsertNote(_, _)
InsertNote(sorted, n) ==
  IF sorted = <<>> THEN <<n>>
  ELSE IF GetTime(Head(sorted).createdAt) >= GetTime(n.createdAt)
       THEN <<Head(sorted)>> \o InsertNote(Tail(sorted), n)
       ELSE <<n>> \o sorted
RECURSIVE SortNotes(_)
SortNotes(l) ==
  IF l = <<>> THEN <<>>
  ELSE InsertNote(SortNotes(SubStr(l, 1, Len(l) - 1)), l[Len(l)])

(***************************************************************************)
(* The application in one view: useTodos and useNotes over localStorage.   *)
(***************************************************************************)
pageVars  == <<allItems, currentPage, itemsPerPage>>
syncVars  == <<shared, mem, inbox>>
storeVars == <<item, written, view>>
viewVars  == <<filter, searchQuery>>

\* usePagination(filteredTodos, { itemsPerPage: 5 }) in the page
IndexPageSize == 5

\* what the user can type
Texts == { <<>>, <<" ">>, <<" ", Quote, " ", "b", " ">> }

\* an identifier no record has
AbsentId == <<"n", "o", "n", "e">>
IdArgs(l) == Ids(l) \cup {AbsentId}

\* Date.now() at a handler: the clock does not run backwards
Nows == {n \in {clock, clock + 1} : n <= MaxClock}

\* how the last handler ended: "set" (its setValue stored the value),
\* "unsaved" (its setValue caught a throwing setItem), "early" (it returned
\* before any setValue) or "threw" (it raised to its caller); of a handler
\* that reached setValue the key is recorded, of the others the operation
Saved(ok) == IF ok THEN "set" ELSE "unsaved"
KeyOf(op) ==
  IF op \in {"addTodo", "toggleTodo", "deleteTodo", "editTodo", "clearCompleted"}
  THEN "todos"
  ELSE IF op \in {"addNote", "updateNote", "deleteNote", "markAsConverted"}
       THEN "notes" ELSE ""
Did(op, exit) == [op |-> IF exit \in {"set", "unsaved"} THEN KeyOf(op) ELSE op, exit |-> exit]

\* what an earlier session can have left under the two keys
CorruptText == <<"[", "{">>
StoredTodo == [id |-> generateId(0, <<"a">>), text |-> <<"a">>, completed |-> TRUE,
               createdAt |-> ToISOString(0), updatedAt |-> ToISOString(0)]
StoredNote == [id |-> generateId(0, <<"a">>), content |-> <<"a">>,
               date |-> getTodayDate(0),
               createdAt |-> ToISOString(0), updatedAt |-> ToISOString(0),
               convertedToTodo |-> FALSE]
InitStorages ==
  { [k \in {"todos", "notes"} |-> <<>>],
    [k \in {"todos", "notes"} |-> <<Raw(CorruptText)>>],
    [k \in {"todos", "notes"} |->
       IF k = "todos" THEN <<Raw(Stringify(TodosToJSON(<<StoredTodo>>)))>>
       ELSE <<Raw(Stringify(NotesToJSON(<<StoredNote>>)))>>] }

\* useLocalStorage<Todo[]>('todos', []) and useLocalStorage<Note[]>("notes", [])
MountTodos(store) == TodosOfJSON(ReadInitial(store["todos"], JArr(<<>>), TRUE))
MountNotes(store) == NotesOfJSON(ReadInitial(store["notes"], JArr(<<>>), TRUE))

PageIdle  == allItems = <<>> /\ currentPage = 1 /\ itemsPerPage = 1
SyncIdle  == shared = <<>> /\ mem = <<>> /\ inbox = <<>>
StoreIdle == item = <<>> /\ written = <<>> /\ view = <<>>
ViewIdle  == filter = "all" /\ searchQuery = <<>>

Init ==
  /\ storage \in InitStorages
  /\ todos = MountTodos(storage)
  /\ notes = SortNotes(MountNotes(storage))
  /\ clock = 1
  /\ last = Did("mount", "early")
  /\ writeFailed = 0
  /\ retired = [todos |-> {}, notes |-> {}]
  /\ PageIdle /\ SyncIdle /\ StoreIdle /\ ViewIdle

\* setValue that keeps the old list when setItem throws
SetTodosAllOrNothing(valueToStore, ok) ==
  /\ todos' = IF ok THEN valueToStore ELSE todos
  /\ storage' = [storage EXCEPT !["todos"] = WriteItem(@, TodosToJSON(valueToStore), ok)]
  /\ ok \/ writeFailed < MaxFails
  /\ writeFailed' = writeFailed + (IF ok THEN 0 ELSE 1)
  /\ UNCHANGED notes

\* setValue of the 'todos' hook: setStoredValue(valueToStore), then setItem
SetTodos(valueToStore, ok) ==
  /\ todos' = valueToStore
  /\ storage' = [storage EXCEPT !["todos"] = WriteItem(@, TodosToJSON(valueToStore), ok)]
  /\ ok \/ writeFailed < MaxFails
  /\ writeFailed' = writeFailed + (IF ok THEN 0 ELSE 1)
  /\ UNCHANGED notes

\* setValue of the "notes" hook; allNotes sorts the new array at the render
SetNotes(valueToStore, ok) ==
  /\ notes' = SortNotes(valueToStore)
  /\ storage' = [storage EXCEPT !["notes"] = WriteItem(@, NotesToJSON(valueToStore), ok)]
  /\ ok \/ writeFailed < MaxFails
  /\ writeFailed' = writeFailed + (IF ok THEN 0 ELSE 1)
  /\ UNCHANGED todos

NoCall == UNCHANGED <<todos, notes, storage, writeFailed>>

\* The two hooks share no state: a run works on one container, the other
\* keeps what the mount read.
Untouched(k) == IF storage[k] = <<>> THEN TRUE ELSE "raw" \in DOMAIN storage[k][1]
\* the lists are kept short: MaxLen records in the runs of the hooks alone,
\* MaxTodos in the runs of the page
Room == Len(todos) + Len(notes) < (IF itemsPerPage = IndexPageSize THEN MaxTodos ELSE MaxLen)

\* addTodo without its validation of the text
addTodoUnvalidated(text, now, suffix, ok) ==
  /\ Room
  /\ clock' = now
  /\ SetTodos(AddTodoUpdate(todos, text, now, suffix), ok)
  /\ last' = Did("addTodo", Saved(ok))

addTodo(text, now, suffix, ok) ==
  /\ Room
  /\ clock' = now
  /\ IF Trim(text) = <<>>
     THEN NoCall /\ last' = Did("addTodo", "early")
     ELSE SetTodos(AddTodoUpdate(todos, text, now, suffix), ok) /\ last' = Did("addTodo", Saved(ok))

toggleTodo(id, now, ok) ==
  /\ clock' = now
  /\ SetTodos(ToggleTodoUpdate(todos, id, now), ok)
  /\ last' = Did("toggleTodo", Saved(ok))

deleteTodo(id, now, ok) ==
  /\ clock' = now
  /\ SetTodos(DeleteUpdate(todos, id), ok)
  /\ last' = Did("deleteTodo", Saved(ok))

editTodo(id, newText, now, ok) ==
  /\ clock' = now
  /\ IF Trim(newText) = <<>>
     THEN NoCall /\ last' = Did("editTodo", "early")
     ELSE SetTodos(EditTodoUpdate(todos, id, newText, now), ok) /\ last' = Did("editTodo", Saved(ok))

clearCompleted(now, ok) ==
  /\ clock' = now
  /\ SetTodos(ClearCompletedUpdate(todos), ok)
  /\ last' = Did("clearCompleted", Saved(ok))

\* throw new Error("Konten catatan tidak boleh kosong") when the content is blank
addNote(content, now, suffix, ok) ==
  /\ Room
  /\ clock' = now
  /\ IF Trim(content) = <<>>
     THEN NoCall /\ last' = Did("addNote", "threw")
     ELSE SetNotes(AddNoteUpdate(notes, content, now, suffix), ok) /\ last' = Did("addNote", Saved(ok))

updateNote(id, content, now, ok) ==
  /\ clock' = now
  /\ IF Trim(content) = <<>>
     THEN NoCall /\ last' = Did("updateNote", "threw")
     ELSE SetNotes(UpdateNoteUpdate(notes, id, content, now), ok) /\ last' = Did("updateNote", Saved(ok))

deleteNote(id, now, ok) ==
  /\ clock' = now
  /\ SetNotes(DeleteUpdate(notes, id), ok)
  /\ last' = Did("deleteNote", Saved(ok))

markAsConverted(id, now, ok) ==
  /\ clock' = now
  /\ SetNotes(MarkAsConvertedUpdate(notes, id, now), ok)
  /\ last' = Did("markAsConverted", Saved(ok))

\* The handlers, each with what the user and the environment supply; oks
\* says whether setItem can throw.
AddTodo(oks) ==
  \E now \in Nows, ok \in oks, text \in Texts, suffix \in RandomSuffixes :
    Untouched("notes") /\ addTodo(text, now, suffix, ok)
ToggleTodo(oks) ==
  \E now \in Nows, ok \in oks, id \in IdArgs(todos) :
    Untouched("notes") /\ toggleTodo(id, now, ok)
DeleteTodo(oks) ==
  \E now \in Nows, ok \in oks, id \in IdArgs(todos) :
    Untouched("notes") /\ deleteTodo(id, now, ok)
EditTodo(oks) ==
  \E now \in Nows, ok \in oks, id \in IdArgs(todos), text \in Texts :
    Untouched("notes") /\ editTodo(id, text, now, ok)
ClearCompleted(oks) ==
  \E now \in Nows, ok \in oks :
    Untouched("notes") /\ clearCompleted(now, ok)
AddNote(oks) ==
  \E now \in Nows, ok \in oks, content \in Texts, suffix \in RandomSuffixes :
    Untouched("todos") /\ addNote(content, now, suffix, ok)
UpdateNote(oks) ==
  \E now \in Nows, ok \in oks, id \in IdArgs(notes), content \in Texts :
    Untouched("todos") /\ updateNote(id, content, now, ok)
DeleteNote(oks) ==
  \E now \in Nows, ok \in oks, id \in IdArgs(notes) :
    Untouched("todos") /\ deleteNote(id, now, ok)
MarkAsConverted(oks) ==
  \E now \in Nows, ok \in oks, id \in IdArgs(notes) :
    Untouched("todos") /\ markAsConverted(id, now, ok)

OtherHooksIdle == UNCHANGED <<pageVars, syncVars, storeVars, viewVars>>
AppFrame == UNCHANGED retired /\ OtherHooksIdle
\* the runs in which setItem can throw keep one record less
FailFrame == AppFrame /\ Len(todos') + Len(notes') < MaxLen

\* one view in which no setItem throws
Next ==
  \/ AddTodo({TRUE}) /\ AppFrame
  \/ ToggleTodo({TRUE}) /\ AppFrame
  \/ DeleteTodo({TRUE}) /\ AppFrame
  \/ EditTodo({TRUE}) /\ AppFrame
  \/ ClearCompleted({TRUE}) /\ AppFrame
  \/ AddNote({TRUE}) /\ AppFrame
  \/ UpdateNote({TRUE}) /\ AppFrame
  \/ DeleteNote({TRUE}) /\ AppFrame
  \/ MarkAsConverted({TRUE}) /\ AppFrame

Spec == Init /\ [][Next]_vars

\* one view in which setItem can throw (quota exceeded, storage unavailable)
NextFail ==
  \/ AddTodo(BOOLEAN) /\ FailFrame
  \/ ToggleTodo(BOOLEAN) /\ FailFrame
  \/ DeleteTodo(BOOLEAN) /\ FailFrame
  \/ EditTodo(BOOLEAN) /\ FailFrame
  \/ ClearCompleted(BOOLEAN) /\ FailFrame
  \/ AddNote(BOOLEAN) /\ FailFrame
  \/ UpdateNote(BOOLEAN) /\ FailFrame
  \/ DeleteNote(BOOLEAN) /\ FailFrame
  \/ MarkAsConverted(BOOLEAN) /\ FailFrame

SpecFail == Init /\ [][NextFail]_vars

\* one view, remembering in retired the identifiers that have left a list
Retire ==
  retired' = [todos |-> retired.todos \cup (Ids(todos) \ Ids(todos')),
              notes |-> retired.notes \cup (Ids(notes) \ Ids(notes'))]
IdsFrame == Retire /\ OtherHooksIdle

NextIds ==
  \/ AddTodo({TRUE}) /\ IdsFrame
  \/ ToggleTodo({TRUE}) /\ IdsFrame
  \/ DeleteTodo({TRUE}) /\ IdsFrame
  \/ EditTodo({TRUE}) /\ IdsFrame
  \/ ClearCompleted({TRUE}) /\ IdsFrame
  \/ AddNote({TRUE}) /\ IdsFrame
  \/ UpdateNote({TRUE}) /\ IdsFrame
  \/ DeleteNote({TRUE}) /\ IdsFrame
  \/ MarkAsConverted({TRUE}) /\ IdsFrame

SpecIds == Init /\ [][NextIds]_vars

(***************************************************************************)
(* The containers and the store: their properties.                         *)
(***************************************************************************)
\* what a mount would read now under each key, with fallback []
PersistedTodos == TodosOfJSON(ReadInitial(storage["todos"], JArr(<<>>), TRUE))
PersistedNotes == NotesOfJSON(ReadInitial(storage["notes"], JArr(<<>>), TRUE))

Distinct(l) == \A i, j \in 1..Len(l) : l[i].id = l[j].id => i = j

\* C3: in a view in which no write fails, after every container operation
\* (the no-ops included) the value persisted under "todos" and under "notes",
\* read with fallback [], equals the container's in-memory list.
C3_PersistedEqualsMemory == PersistedTodos = todos /\ PersistedNotes = notes

\* a write has stored two tasks, one of them completed, one with a quote in it
C3_Witness ==
  /\ last.exit = "set" /\ Len(todos) >= 2
  /\ \E i \in 1..Len(todos) : todos[i].completed
  /\ \E i \in 1..Len(todos) : todos[i].text = <<Quote, " ", "b">>

\* C5 as stated: after a mutation whose setItem threw, the in-memory list
\* of its container and the value persisted under its key differ.
C5_FailedWriteLeavesThemDifferent ==
  /\ (last.exit = "unsaved" /\ last.op = "todos") => todos # PersistedTodos
  /\ (last.exit = "unsaved" /\ last.op = "notes") => notes # PersistedNotes

\* C5, amended: when the setItem of a mutation throws, the call returns
\* normally, the in-memory list takes the new value and what is persisted
\* stays, so that the two differ exactly when the new value is not the
\* persisted one (a mutation that changes nothing leaves them equal); after a
\* write that succeeds the persisted value is the in-memory list.
C5_FailedWriteKeepsNewValueInMemory ==
  /\ []((last.exit = "set" /\ last.op = "todos") => PersistedTodos = todos)
  /\ []((last.exit = "set" /\ last.op = "notes") => PersistedNotes = notes)
  /\ [][/\ writeFailed' > writeFailed
             => (last'.exit = "unsaved" /\ storage' = storage)
        /\ \A now \in Nows, text \in Texts, suffix \in RandomSuffixes :
             (Trim(text) # <<>> /\ addTodo(text, now, suffix, FALSE))
             => todos' = AddTodoUpdate(todos, text, now, suffix)
        /\ \A now \in Nows, id \in IdArgs(todos) :
             /\ toggleTodo(id, now, FALSE) => todos' = ToggleTodoUpdate(todos, id, now)
             /\ deleteTodo(id, now, FALSE) => todos' = DeleteUpdate(todos, id)
             /\ \A text \in Texts :
                  (Trim(text) # <<>> /\ editTodo(id, text, now, FALSE))
                  => todos' = EditTodoUpdate(todos, id, text, now)
        /\ \A now \in Nows :
             clearCompleted(now, FALSE) => todos' = ClearCompletedUpdate(todos)
        /\ \A now \in Nows, content \in Texts, suffix \in RandomSuffixes :
             (Trim(content) # <<>> /\ addNote(content, now, suffix, FALSE))
             => notes' = SortNotes(AddNoteUpdate(notes, content, now, suffix))
        /\ \A now \in Nows, id \in IdArgs(notes) :
             /\ deleteNote(id, now, FALSE) => notes' = DeleteUpdate(notes, id)
             /\ markAsConverted(id, now, FALSE)
                => notes' = SortNotes(MarkAsConvertedUpdate(notes, id, now))
             /\ \A content \in Texts :
                  (Trim(content) # <<>> /\ updateNote(id, content, now, FALSE))
                  => notes' = SortNotes(UpdateNoteUpdate(notes, id, content, now))]_vars

\* a setItem has thrown and the list in memory has a task that is not persisted
C5_Witness ==
  /\ last = Did("addTodo", "unsaved")
  /\ todos # <<>> /\ Len(PersistedTodos) < Len(todos)

\* C7 as stated: a create with a text that is not blank adds exactly one
\* record, at the head, with the trimmed text, completed = false,
\* createdAt = updatedAt and an identifier no record of the list has, and
\* leaves the records that were there as they were, in their order.
C7_CreateAddsOneFreshRecord ==
  [][\A text \in Texts, now \in Nows, suffix \in RandomSuffixes :
       (Trim(text) # <<>> /\ addTodo(text, now, suffix, TRUE))
       => /\ Len(todos') = Len(todos) + 1
          /\ todos'[1].text = Trim(text)
          /\ ~todos'[1].completed
          /\ todos'[1].createdAt = todos'[1].updatedAt
          /\ todos'[1].id \notin Ids(todos)
          /\ Tail(todos') = todos]_vars

\* C8: a create with an empty or whitespace-only text adds no record, raises
\* no error and leaves the list and what is persisted as they were.
C8_BlankCreateIsNoOp ==
  [][\A text \in Texts, now \in Nows, suffix \in RandomSuffixes :
       (Trim(text) = <<>> /\ addTodo(text, now, suffix, TRUE))
       => (todos' = todos /\ storage' = storage /\ last'.exit # "threw")]_vars

\* addTodo has returned on a blank text, with a task in the list
C8_Witness == last = [op |-> "addTodo", exit |-> "early"] /\ todos # <<>>

\* C9: in every reachable state every task's text and every note's content is
\* non-empty and has no leading or trailing whitespace.
C9_TextsTrimmedNonEmpty ==
  /\ \A i \in 1..Len(todos) : todos[i].text # <<>> /\ Trim(todos[i].text) = todos[i].text
  /\ \A i \in 1..Len(notes) : notes[i].content # <<>> /\ Trim(notes[i].content) = notes[i].content

\* the stored task "a" has been edited with the input " \" b "
C9_Witness ==
  \E i \in 1..Len(todos) :
    todos[i].id = StoredTodo.id /\ todos[i].text = <<Quote, " ", "b">>

\* C10 as stated: in every reachable state the identifiers of each list are
\* pairwise distinct, and no record carries an identifier that a record
\* deleted earlier in the session had.
C10_IdsDistinctNeverReused ==
  /\ Distinct(todos) /\ Distinct(notes)
  /\ Ids(todos) \cap retired.todos = {}
  /\ Ids(notes) \cap retired.notes = {}

\* the k-th index, in increasing order, of a set of indices
NthOf(S, k) == CHOOSE i \in S : Cardinality({j \in S : j < i}) = k - 1

\* l without the records at the indices outside keep, in l's order
Kept(l, keep) == [k \in 1..Cardinality(keep) |-> l[NthOf(keep, k)]]

\* C11 as stated: toggle(id) on a present identifier flips completed of
\* exactly one record, the one with that identifier, leaves every other
\* record and the order as they were, and a second toggle(id) gives the flag
\* its first value back.
C11_ToggleFlipsExactlyOne ==
  [][\A now \in Nows, id \in Ids(todos) :
       toggleTodo(id, now, TRUE)
       => /\ Len(todos') = Len(todos)
          /\ \E i \in 1..Len(todos) :
               /\ todos[i].id = id
               /\ todos'[i].completed = ~todos[i].completed
               /\ \A j \in 1..Len(todos) : j # i => todos'[j] = todos[j]
          /\ \A i \in 1..Len(todos) :
               ToggleTodoUpdate(todos', id, now)[i].completed = todos[i].completed]_vars

\* C12 as stated: delete(id) removes exactly one record when the identifier
\* is present and none when it is absent; the record with that identifier is
\* gone, and the other records are unchanged and keep their order.
C12_DeleteRemovesExactlyOne ==
  [][/\ \A now \in Nows, id \in IdArgs(todos) :
          deleteTodo(id, now, TRUE)
          => /\ Len(todos') = Len(todos) - (IF id \in Ids(todos) THEN 1 ELSE 0)
             /\ id \notin Ids(todos')
             /\ todos' = Kept(todos, {i \in 1..Len(todos) : todos[i].id # id})
     /\ \A now \in Nows, id \in IdArgs(notes) :
          deleteNote(id, now, TRUE)
          => /\ Len(notes') = Len(notes) - (IF id \in Ids(notes) THEN 1 ELSE 0)
             /\ id \notin Ids(notes')
             /\ notes' = Kept(notes, {i \in 1..Len(notes) : notes[i].id # id})]_vars

\* C13: after clearCompleted() no record of the to-do list is completed, and
\* the list is the previous list's records that were not completed, as they
\* were and in their order.
C13_ClearCompletedKeepsActive ==
  [][\A now \in Nows :
       clearCompleted(now, TRUE)
       => /\ \A i \in 1..Len(todos') : ~todos'[i].completed
          /\ todos' = Kept(todos, {i \in 1..Len(todos) : ~todos[i].completed})]_vars

\* the session started with a completed task; a write has left a list without
\* it, and with a task added since that is not completed
C13_Witness ==
  /\ last = Did("clearCompleted", "set")
  /\ notes = <<StoredNote>>
  /\ storage["todos"] # <<>> /\ "json" \in DOMAIN storage["todos"][1]
  /\ todos # <<>> /\ StoredTodo.id \notin Ids(todos)
  /\ \A i \in 1..Len(todos) : ~todos[i].completed

\* C14 as stated: edit(id, text) with a blank text leaves the list as it was;
\* otherwise exactly one record, the one with that identifier, gets the
\* trimmed text and keeps its identifier, completed flag, creation timestamp
\* and position, and every other record is unchanged.
C14_EditChangesExactlyOne ==
  [][\A now \in Nows, id \in Ids(todos), text \in Texts :
       editTodo(id, text, now, TRUE)
       => IF Trim(text) = <<>> THEN todos' = todos
          ELSE /\ Len(todos') = Len(todos)
               /\ \E i \in 1..Len(todos) :
                    /\ todos[i].id = id
                    /\ todos'[i].text = Trim(text)
                    /\ todos'[i].id = todos[i].id
                    /\ todos'[i].completed = todos[i].completed
                    /\ todos'[i].createdAt = todos[i].createdAt
                    /\ \A j \in 1..Len(todos) : j # i => todos'[j] = todos[j]]_vars

\* what C17 says stays: of a task its id and createdAt, of a note also its date
TodoKeys(l) == [i \in 1..Len(l) |-> <<l[i].id, l[i].createdAt>>]
NoteKeys(l) == [i \in 1..Len(l) |-> <<l[i].id, l[i].createdAt, l[i].date>>]

\* before and after one operation: a list of the same length has the same
\* keys at every position, a list one longer has them after its new head, a
\* shorter list has the keys of the records that are left, in their order
KeysKept(old, new) ==
  IF Len(new) = Len(old) THEN new = old
  ELSE IF Len(new) = Len(old) + 1 THEN Tail(new) = old
  ELSE \E keep \in SUBSET (1..Len(old)) : new = Kept(old, keep)

\* C17: no operation changes the identifier or the creation timestamp of an
\* existing task or note, nor the date of an existing note: every step leaves
\* them as they were in every record that stays in its list.
C17_IdCreatedAtDateKept ==
  [][/\ KeysKept(TodoKeys(todos), TodoKeys(todos'))
     /\ KeysKept(NoteKeys(notes), NoteKeys(notes'))]_vars

\* the note the session started with has been updated or marked as converted
\* at a later time and on a later day than it was created
C17_Witness ==
  /\ Len(notes) = 1 /\ notes[1].id = StoredNote.id
  /\ notes[1].updatedAt = ToISOString(MaxClock)
  /\ notes[1].createdAt = StoredNote.createdAt
  /\ getTodayDate(MaxClock) # notes[1].date

(***************************************************************************)
(* usePagination.                                                          *)
(***************************************************************************)
appVars == <<storage, todos, notes, clock, last, writeFailed, retired>>

\* Math.ceil(a / b) for b >= 1
Ceil(a, b) == (a + b - 1) \div b

\* Array.prototype.slice(0, end)
Slice0(l, end) == SubStr(l, 1, Min(end, Len(l)))

totalPages == Ceil(Len(allItems), itemsPerPage)
\* the items of the current page alone
displayedItemsOfPage ==
  SubStr(allItems, (currentPage - 1) * itemsPerPage + 1,
         Min(currentPage * itemsPerPage, Len(allItems)))

\* allItems.slice(0, currentPage * itemsPerPage)
displayedItems == Slice0(allItems, currentPage * itemsPerPage)
remainingItems == Len(allItems) - Len(displayedItems)
\* hasNextPage that is true on the last page too
hasNextPageOnLast == currentPage <= totalPages

\* currentPage < totalPages
hasNextPage == currentPage < totalPages

\* loadMore without its clamp
LoadMorePageUnclamped(prev, total) == prev + 1

\* loadMore that jumps to the last page
LoadMorePageToLast(prev, total) == IF prev + 1 <= total THEN total ELSE prev

\* setCurrentPage(prev => prev + 1 <= totalPages ? prev + 1 : prev)
LoadMorePage(prev, total) == IF prev + 1 <= total THEN prev + 1 ELSE prev
\* showLess that goes back to the first page
ShowLessPageToFirst(prev) == 1

\* setCurrentPage(prev => prev - 1 >= 1 ? prev - 1 : 1)
ShowLessPage(prev) == IF prev - 1 >= 1 THEN prev - 1 ELSE 1

\* the lists a caller can hand over: n items, starting after item k
Sources == { [i \in 1..n |-> k + i] : n \in 0..MaxItems, k \in 0..1 }

InitPage ==
  /\ allItems \in Sources
  /\ itemsPerPage \in 1..MaxPageSize
  /\ currentPage = 1
  /\ storage = [k \in {"todos", "notes"} |-> <<>>] /\ todos = <<>> /\ notes = <<>>
  /\ clock = 1 /\ last = Did("mount", "early") /\ writeFailed = 0
  /\ retired = [todos |-> {}, notes |-> {}]
  /\ SyncIdle /\ StoreIdle /\ ViewIdle

loadMore ==
  /\ currentPage' = LoadMorePage(currentPage, totalPages)
  /\ last' = Did("loadMore", "early")
  /\ UNCHANGED <<allItems, itemsPerPage>>

showLess ==
  /\ currentPage' = ShowLessPage(currentPage)
  /\ last' = Did("showLess", "early")
  /\ UNCHANGED <<allItems, itemsPerPage>>

reset ==
  /\ currentPage' = 1
  /\ last' = Did("reset", "early")
  /\ UNCHANGED <<allItems, itemsPerPage>>

\* the caller renders with another list (a record added or deleted, another
\* filter or search): the hook keeps its page
SetAllItems ==
  /\ allItems' \in Sources \ {allItems}
  /\ last' = Did("render", "early")
  /\ UNCHANGED <<currentPage, itemsPerPage>>

PageFrame ==
  UNCHANGED <<storage, todos, notes, clock, writeFailed, retired, syncVars, storeVars, viewVars>>

NextPage ==
  \/ loadMore /\ PageFrame
  \/ showLess /\ PageFrame
  \/ reset /\ PageFrame
  \/ SetAllItems /\ PageFrame

SpecPage == InitPage /\ [][NextPage]_vars

\* C1 as stated: in every reachable state the current page is at least 1 and
\* at most ceil(sourceLength / pageSize).
C1_PageWithinTotal == currentPage >= 1 /\ currentPage <= totalPages

\* C1, amended: the current page is at least 1 in every reachable state, and a
\* step that raises it leaves it at most ceil(sourceLength / pageSize); it is
\* above that only on an empty source list at page 1 or after the source list
\* has shrunk.
C1_PageFloorAndClampedAdvance ==
  /\ [](currentPage >= 1)
  /\ [][currentPage' > currentPage => currentPage' <= totalPages']_vars
  /\ [][(currentPage <= totalPages /\ Len(allItems') >= Len(allItems))
          => currentPage' <= totalPages']_vars

\* loadMore has stopped at the last of at least two pages
C1_Witness == currentPage >= 2 /\ currentPage = totalPages /\ ~hasNextPage

\* C18: for every source list, page size and current page, the displayed
\* items are the first min(currentPage * pageSize, sourceLength) items of the
\* current source list, in its order; with 13 items and page size 5 the
\* pages 1, 2, 3 show 5, 10, 13 items.
C18_DisplayedIsPrefix ==
  /\ Len(displayedItems) = Min(currentPage * itemsPerPage, Len(allItems))
  /\ \A i \in 1..Len(displayedItems) : displayedItems[i] = allItems[i]
  /\ (Len(allItems) = 13 /\ itemsPerPage = 5 /\ currentPage \in 1..3)
       => Len(displayedItems) = (IF currentPage = 1 THEN 5
                                 ELSE IF currentPage = 2 THEN 10 ELSE 13)

\* the list has changed while the view was on its second page, which shows
\* ten of the thirteen items of the list it has now
C18_Witness ==
  /\ last = Did("render", "early")
  /\ Len(allItems) = 13 /\ allItems[1] = 2 /\ itemsPerPage = 5 /\ currentPage = 2
  /\ Len(displayedItems) = 10 /\ displayedItems[10] = allItems[10]

\* C19 as stated: in whatever state loadMore is invoked, the current page
\* afterwards is at most ceil(sourceLength / pageSize).
C19_AfterLoadMoreWithinTotal ==
  last = Did("loadMore", "early") => currentPage <= totalPages

\* C19, amended: loadMore raises the current page by one when that is at
\* most ceil(sourceLength / pageSize) and leaves it as it is otherwise; the
\* page afterwards is at most the larger of the page before and
\* ceil(sourceLength / pageSize), so that it is above
\* ceil(sourceLength / pageSize) only when it was before (on an empty list,
\* or after the list has shrunk).
C19_LoadMoreClamped ==
  [][loadMore
       => /\ currentPage' = (IF currentPage + 1 <= totalPages
                             THEN currentPage + 1 ELSE currentPage)
          /\ currentPage' <= Max(currentPage, totalPages')
          /\ currentPage <= totalPages => currentPage' <= totalPages']_vars

\* loadMore has been invoked on the last of three pages and the page is three
C19_Witness ==
  /\ last = Did("loadMore", "early")
  /\ currentPage = 3 /\ totalPages = 3 /\ ~hasNextPage

C29_HasNextIffRemaining == hasNextPage <=> remainingItems > 0

\* on the second page of eleven items shown five at a time one item remains
\* and there is a next page
C29_Witness ==
  /\ Len(allItems) = 11 /\ itemsPerPage = 5 /\ currentPage = 2
  /\ last = Did("loadMore", "early")
  /\ remainingItems = 1 /\ hasNextPage

\* C21: after showLess the current page is 1, whatever page it was on before.
C21_ShowLessReturnsToFirst ==
  last = Did("showLess", "early") => currentPage = 1


(***************************************************************************)
(* useLocalStorage on one key, mounted and unmounted, with any JSON value.  *)
(***************************************************************************)
AppIdle ==
  /\ storage = [k \in {"todos", "notes"} |-> <<>>] /\ todos = <<>> /\ notes = <<>>
  /\ clock = 1 /\ writeFailed = 0
  /\ retired = [todos |-> {}, notes |-> {}]

\* the values a caller stores
StoreValues ==
  { JNull, JBool(FALSE), JBool(TRUE), JNum(0), JNum(10), JStr(<<>>),
    JStr(<<" ">>), JStr(<<Quote, Backslash, "n">>), JArr(<<>>),
    JArr(<<JNum(1), JNull, JArr(<<JStr(<<",">>)>>)>>), JObj(<<>>),
    JObj(<< <<K_id, JStr(<<"]">>)>>, <<<<Quote>>, JObj(<< <<K_text, JBool(FALSE)>> >>)>> >>) }

\* the initialValue a caller supplies
Fallbacks == { JArr(<<>>), JStr(<<"f">>) }

\* what is under the key when the session starts, and the value it was written
\* from: nothing, the empty text, a text that does not decode, or a text that
\* an earlier session wrote from a value
InitItems ==
  { <<<<>>, <<>>>>,
    <<<<Raw(<<>>)>>, <<>>>>,
    <<<<Raw(CorruptText)>>, <<>>>>,
    <<<<Raw(<<" ", "[", "1", ",", " ", "n", "u", "l", "l", "]", " ">>)>>,
      <<JArr(<<JNum(1), JNull>>)>>>> }

InitStore ==
  /\ \E iw \in InitItems : item = iw[1] /\ written = iw[2]
  /\ view = <<>>
  /\ last = Did("unmount", "early")
  /\ AppIdle /\ PageIdle /\ SyncIdle /\ ViewIdle

\* a component with useLocalStorage(key, initialValue) mounts
StoreMount(initialValue) ==
  /\ view = <<>>
  /\ view' = <<ReadInitial(item, initialValue, TRUE)>>
  /\ last' = Did("mount", "early")
  /\ UNCHANGED <<item, written>>

\* setValue(valueToStore); written keeps the value of the last setItem that
\* did not throw
StoreSetValue(valueToStore, ok) ==
  /\ view # <<>>
  /\ view' = <<valueToStore>>
  /\ item' = WriteItem(item, valueToStore, ok)
  /\ written' = IF ok THEN <<valueToStore>> ELSE written
  /\ last' = Did("setValue", Saved(ok))

\* the component unmounts; the item stays
StoreUnmount ==
  /\ view # <<>>
  /\ view' = <<>>
  /\ last' = Did("unmount", "early")
  /\ UNCHANGED <<item, written>>

StoreFrame == UNCHANGED <<storage, todos, notes, clock, writeFailed, retired, pageVars, syncVars, viewVars>>

NextStore ==
  \/ (\E initialValue \in Fallbacks : StoreMount(initialValue)) /\ StoreFrame
  \/ (\E v \in StoreValues, ok \in BOOLEAN : StoreSetValue(v, ok)) /\ StoreFrame
  \/ StoreUnmount /\ StoreFrame

SpecStore == InitStore /\ [][NextStore]_vars

\* C6: a view mounted on a key starts with the value last successfully
\* written under the key, for every JSON value; it starts with the supplied
\* fallback when nothing is under the key and when the stored text does not
\* decode.
C6_MountReadsLastWritten ==
  [][\A initialValue \in Fallbacks :
       StoreMount(initialValue)
       => /\ written # <<>> => view' = written
          /\ item = <<>> => view' = <<initialValue>>
          /\ (item # <<>> /\ ~JSONParse(TextOf(item[1])).ok) => view' = <<initialValue>>]_vars

\* a mount has read back an object written in this session whose keys and
\* strings need escaping
C6_Witness ==
  /\ last = Did("mount", "early")
  /\ item # <<>> /\ "json" \in DOMAIN item[1]
  /\ view = written
  /\ view[1].t = "obj" /\ view[1].o # <<>>

(***************************************************************************)
(* Several views on the key "todos", each with its own 'storage' listener.  *)
(***************************************************************************)
Views == 1..MaxViews

SharedTodos == TodosOfJSON(ReadInitial(shared, JArr(<<>>), TRUE))

InitSync ==
  /\ shared \in { <<>>, <<Raw(Stringify(TodosToJSON(<<StoredTodo>>)))>> }
  /\ mem = [v \in Views |-> SharedTodos]
  /\ inbox = [v \in Views |-> <<>>]
  /\ last = Did("mount", "early")
  /\ AppIdle /\ PageIdle /\ StoreIdle /\ ViewIdle

\* the StorageEvent of a setItem goes to every view but the writer's
StorageEvent(key, newValue) == [key |-> key, newValue |-> newValue]
Dispatch(from, e) ==
  [w \in Views |-> IF w = from THEN inbox[w] ELSE Append(inbox[w], e)]
CanDispatch(from) == \A w \in Views \ {from} : Len(inbox[w]) < MaxInbox

\* setValue in view v, the setItem succeeding
SyncSetValue(v, valueToStore) ==
  /\ CanDispatch(v)
  /\ mem' = [mem EXCEPT ![v] = valueToStore]
  /\ shared' = WriteItem(shared, TodosToJSON(valueToStore), TRUE)
  /\ inbox' = Dispatch(v, StorageEvent("todos", shared'))

\* the views of this model keep one record less than the one-view model
SyncRoom(v) == Len(mem[v]) + 1 < MaxLen

SyncAddTodo(v) ==
  \E now \in Nows, suffix \in RandomSuffixes :
    /\ SyncRoom(v)
    /\ clock' = now
    /\ SyncSetValue(v, AddTodoUpdate(mem[v], <<Quote, " ", "b">>, now, suffix))
    /\ last' = Did("addTodo", "set")

SyncDeleteTodo(v) ==
  \E id \in IdArgs(mem[v]) :
    /\ SyncSetValue(v, DeleteUpdate(mem[v], id))
    /\ last' = Did("deleteTodo", "set")
    /\ UNCHANGED clock

\* the notes hook of view v writes its own key
SyncNotesWritten(v) ==
  /\ CanDispatch(v)
  /\ inbox' = Dispatch(v, StorageEvent("notes", <<Raw(Stringify(NotesToJSON(<<StoredNote>>)))>>))
  /\ last' = Did("addNote", "set")
  /\ UNCHANGED <<mem, shared, clock>>

\* view v handles the oldest StorageEvent it has not handled yet
Deliver(v) ==
  /\ inbox[v] # <<>>
  /\ mem' = [mem EXCEPT ![v] =
               TodosOfJSON(HandleStorageChange(TodosToJSON(mem[v]), "todos", Head(inbox[v])))]
  /\ inbox' = [inbox EXCEPT ![v] = Tail(@)]
  /\ last' = Did(IF Head(inbox[v]).key = "todos" THEN "storage todos" ELSE "storage notes", "early")
  /\ UNCHANGED <<shared, clock>>

SyncFrame == UNCHANGED <<storage, todos, notes, writeFailed, retired, pageVars, storeVars, viewVars>>

NextSync ==
  \/ (\E v \in Views : SyncAddTodo(v)) /\ SyncFrame
  \/ (\E v \in Views : SyncDeleteTodo(v)) /\ SyncFrame
  \/ (\E v \in Views : SyncNotesWritten(v)) /\ SyncFrame
  \/ (\E v \in Views : Deliver(v)) /\ SyncFrame

SpecSync == InitSync /\ [][NextSync]_vars

\* C2 as stated: once every notification has been delivered, every view's
\* in-memory list equals the value persisted under the key.
C2_DeliveredViewsAgree ==
  (\A v \in Views : inbox[v] = <<>>) => \A v \in Views : mem[v] = SharedTodos

\* C4: when a view handles a notification for its own key that carries an
\* encoded value, its in-memory list becomes exactly the decoded value; a
\* notification for another key leaves its in-memory list as it was.
C4_NotificationOverwrites ==
  [][\A v \in Views :
       Deliver(v)
       => LET e == Head(inbox[v]) IN
          /\ (e.key = "todos" /\ e.newValue # <<>> /\ JSONParse(TextOf(e.newValue[1])).ok)
             => mem'[v] = TodosOfJSON(JSONParse(TextOf(e.newValue[1])).v)
          /\ e.key # "todos" => mem'[v] = mem[v]]_vars

\* a view that had a record of its own has handled a notification for
\* "todos" and now holds the notified list, which lacks that record
C4_Witness ==
  /\ last = Did("storage todos", "early")
  /\ \E v \in Views : inbox[v] = <<>> /\ mem[v] = SharedTodos /\ Len(mem[v]) = 1
                      /\ mem[v][1].id # StoredTodo.id

(***************************************************************************)
(* useTodos: the filtered view (filteredTodos) and the counts (stats).      *)
(***************************************************************************)
\* String.prototype.toLowerCase on the letters of the model
LowerOf(c) ==
  CASE c = "A" -> "a" [] c = "B" -> "b" [] c = "C" -> "c"
    [] c = "J" -> "j" [] c = "K" -> "k" [] c = "M" -> "m"
    [] c = "R" -> "r" [] c = "S" -> "s" [] OTHER -> c
ToLowerCase(s) == [i \in 1..Len(s) |-> LowerOf(s[i])]

\* String.prototype.includes
Includes(s, q) == \E i \in 0..Len(s) : i + Len(q) <= Len(s) /\ SubStr(s, i + 1, i + Len(q)) = q

FilterTypes == {"all", "active", "completed"}

\* filteredTodos whose search compares the text as typed
filteredTodosCaseSensitive ==
  LET byStatus == SelectSeq(todos, LAMBDA todo :
                    IF filter = "active" THEN ~todo.completed
                    ELSE IF filter = "completed" THEN todo.completed
                    ELSE TRUE)
  IN SelectSeq(byStatus, LAMBDA todo : Includes(todo.text, searchQuery))

\* todos.filter(by status).filter(todo =>
\*   todo.text.toLowerCase().includes(searchQuery.toLowerCase()))
filteredTodos ==
  LET byStatus == SelectSeq(todos, LAMBDA todo :
                    IF filter = "active" THEN ~todo.completed
                    ELSE IF filter = "completed" THEN todo.completed
                    ELSE TRUE)
  IN SelectSeq(byStatus, LAMBDA todo :
       Includes(ToLowerCase(todo.text), ToLowerCase(searchQuery)))

\* the counts taken from the list that is shown
statsOfFiltered ==
  [total |-> Len(filteredTodos),
   active |-> Len(SelectSeq(filteredTodos, LAMBDA t : ~t.completed)),
   completed |-> Len(SelectSeq(filteredTodos, LAMBDA t : t.completed))]

\* { total: todos.length, active: todos.filter(t => !t.completed).length,
\*   completed: todos.filter(t => t.completed).length }
stats ==
  [total |-> Len(todos),
   active |-> Len(SelectSeq(todos, LAMBDA t : ~t.completed)),
   completed |-> Len(SelectSeq(todos, LAMBDA t : t.completed))]

\* the tasks of the lists this view starts with, as addTodo made them
ViewTodos ==
  << newTodo(<<"c", " ", "A">>, 1, <<"a">>),
     newTodo(<<" ", "a", "B", "c">>, 0, <<"k">>),
     newTodo(<<"A", "b">>, 0, <<"a">>) >>

\* what the user types into the search field
Queries == { <<>>, <<"a", "B">>, <<"C">>, <<" ">> }

InitView ==
  /\ \E n \in 0..Len(ViewTodos) : todos = SubStr(ViewTodos, 1, n)
  /\ storage = [k \in {"todos", "notes"} |->
                  IF k = "todos" THEN <<[json |-> TodosToJSON(todos)]>> ELSE <<>>]
  /\ notes = <<>>
  /\ clock = 1 /\ last = Did("mount", "early") /\ writeFailed = 0
  /\ retired = [todos |-> {}, notes |-> {}]
  /\ ViewIdle /\ PageIdle /\ SyncIdle /\ StoreIdle

setFilter(f) ==
  /\ filter' = f
  /\ UNCHANGED searchQuery

setSearchQuery(q) ==
  /\ searchQuery' = q
  /\ UNCHANGED filter

ViewFrame == UNCHANGED <<appVars, pageVars, syncVars, storeVars>>

NextView ==
  \/ (\E f \in FilterTypes : setFilter(f)) /\ ViewFrame
  \/ (\E q \in Queries : setSearchQuery(q)) /\ ViewFrame
  \/ ToggleTodo({TRUE}) /\ AppFrame

SpecView == InitView /\ [][NextView]_vars

\* two letters that differ at most in their case
SameLetter(a, b) ==
  \/ a = b
  \/ {a, b} \in { {"a", "A"}, {"b", "B"}, {"c", "C"}, {"j", "J"}, {"k", "K"},
                  {"m", "M"}, {"r", "R"}, {"s", "S"} }

\* q occurs in text when the case of the letters is ignored
Occurs(q, text) ==
  \E i \in 0..Len(text) :
    /\ i + Len(q) <= Len(text)
    /\ \A k \in 1..Len(q) : SameLetter(text[i + k], q[k])

\* C15: the filtered to-do view is the sub-list, in the order of the list, of
\* the records that pass the filter selector (active: not completed;
\* completed: completed; all: every record) and whose text contains the
\* search string when the case of the letters is ignored.
C15_FilteredViewIsSubList ==
  filteredTodos =
    Kept(todos, {i \in 1..Len(todos) :
                   /\ \/ filter = "all"
                      \/ filter = "active" /\ ~todos[i].completed
                      \/ filter = "completed" /\ todos[i].completed
                   /\ Occurs(searchQuery, todos[i].text)})

\* with the filter on active and a search string in capitals, the view shows
\* the first of three tasks: the second has the letter but is completed, the
\* third does not have it
C15_Witness ==
  /\ filter = "active" /\ searchQuery = <<"C">>
  /\ Len(todos) = 3 /\ todos[2].completed /\ ~todos[1].completed /\ ~todos[3].completed
  /\ Len(filteredTodos) = 1 /\ filteredTodos[1].id = todos[1].id

\* C16: in every state, whatever the filter selector and the search string,
\* total is the length of the full list, active the number of its records
\* that are not completed, completed the number of those that are, and
\* total = active + completed.
C16_CountsOverFullList ==
  /\ stats.total = Len(todos)
  /\ stats.active = Cardinality({i \in 1..Len(todos) : ~todos[i].completed})
  /\ stats.completed = Cardinality({i \in 1..Len(todos) : todos[i].completed})
  /\ stats.total = stats.active + stats.completed

\* the view shows none of three tasks, of which two are completed
C16_Witness ==
  /\ filter = "active" /\ searchQuery = <<"a", "B">>
  /\ filteredTodos = <<>>
  /\ stats = [total |-> 3, active |-> 1, completed |-> 2]

(***************************************************************************)
(* The page (Index): useTodos, useNotes and usePagination together.  The   *)
(* page filters the tasks itself and hands the result to usePagination;    *)
(* every handler ends with a render that computes that list again.         *)
(***************************************************************************)
\* the page's filter that searches for the search string as typed
IndexFilteredTodosUntrimmed(l, f, q) ==
  LET byStatus == SelectSeq(l, LAMBDA todo :
                    IF f = "active" THEN ~todo.completed
                    ELSE IF f = "completed" THEN todo.completed
                    ELSE TRUE)
  IN SelectSeq(byStatus, LAMBDA todo : Includes(ToLowerCase(todo.text), ToLowerCase(q)))

\* todos.filter(by status).filter(todo => !searchQuery.trim() ? true :
\*   todo.text.toLowerCase().includes(searchQuery.toLowerCase()))
IndexFilteredTodos(l, f, q) ==
  LET byStatus == SelectSeq(l, LAMBDA todo :
                    IF f = "active" THEN ~todo.completed
                    ELSE IF f = "completed" THEN todo.completed
                    ELSE TRUE)
  IN SelectSeq(byStatus, LAMBDA todo :
       IF Trim(q) = <<>> THEN TRUE
       ELSE Includes(ToLowerCase(todo.text), ToLowerCase(q)))

\* the tasks an earlier session has left: six, made at instant 0, the
\* first and the fourth completed since
IndexTodos ==
  << [newTodo(<<"A", "b">>, 0, <<"f">>) EXCEPT !.completed = TRUE],
     newTodo(<<"c", " ", "A">>, 0, <<"e">>),
     newTodo(<<"a", "B", "c">>, 0, <<"d">>),
     [newTodo(<<"b">>, 0, <<"c">>) EXCEPT !.completed = TRUE],
     newTodo(<<"C">>, 0, <<"b">>),
     newTodo(<<"a", "b">>, 0, <<"a">>) >>

\* the page is opened one instant before the last one of the run
InitIndex ==
  /\ todos = IndexTodos
  /\ notes = <<StoredNote>>
  /\ storage = [k \in {"todos", "notes"} |->
                  IF k = "todos" THEN <<[json |-> TodosToJSON(todos)]>>
                  ELSE <<[json |-> NotesToJSON(notes)]>>]
  /\ clock = MaxClock - 1 /\ last = Did("mount", "early") /\ writeFailed = 0
  /\ retired = [todos |-> {}, notes |-> {}]
  /\ filter = "all" /\ searchQuery = <<>>
  /\ allItems = IndexFilteredTodos(todos, filter, searchQuery)
  /\ currentPage = 1 /\ itemsPerPage = IndexPageSize
  /\ SyncIdle /\ StoreIdle

\* the render with the effect that resets the page when the list changes
RenderResetting ==
  /\ allItems' = IndexFilteredTodos(todos', filter', searchQuery')
  /\ currentPage' = (IF allItems' # allItems THEN 1 ELSE currentPage)
  /\ UNCHANGED <<itemsPerPage, retired, syncVars, storeVars>>

\* the render after a handler: usePagination gets the list filtered anew and
\* keeps its page (the effect that would reset it is commented out)
Render ==
  /\ allItems' = IndexFilteredTodos(todos', filter', searchQuery')
  /\ UNCHANGED <<currentPage, itemsPerPage, retired, syncVars, storeVars>>

\* the user clicks on tasks that are shown: here on the last one
LastShown == {displayedItems[i].id : i \in {Len(displayedItems)} \cap DOMAIN displayedItems}

\* Date.now() when the user submits a text: later than at the handler before
Later == {n \in {clock + 1} : n <= MaxClock}

\* what the user types into the search field of the page
IndexQueries == { <<>>, <<" ">>, <<"C">> }

\* a conversion that also marks the notes with that content as converted
handleConvertNoteToTodoMarking(content, now, suffix, ok) ==
  /\ Room
  /\ clock' = now
  /\ todos' = AddTodoUpdate(todos, content, now, suffix)
  /\ notes' = [i \in DOMAIN notes |->
                 IF notes[i].content = content
                 THEN [notes[i] EXCEPT !.convertedToTodo = TRUE] ELSE notes[i]]
  /\ storage' = [k \in {"todos", "notes"} |->
                   IF k = "todos" THEN WriteItem(storage[k], TodosToJSON(todos'), ok)
                   ELSE WriteItem(storage[k], NotesToJSON(notes'), ok)]
  /\ last' = Did("addTodo", Saved(ok))
  /\ UNCHANGED writeFailed

\* handleConvertNoteToTodo(content): addTodo(content), on the button of a
\* note that is not marked as converted
handleConvertNoteToTodo(content, now, suffix, ok) == addTodo(content, now, suffix, ok)

IndexTodoHandler ==
  \/ \E now \in Later, text \in Texts, suffix \in RandomSuffixes : addTodo(text, now, suffix, TRUE)
  \/ \E id \in LastShown : deleteTodo(id, clock, TRUE)
  \/ clearCompleted(clock, TRUE)
  \/ \E now \in Later, suffix \in RandomSuffixes, i \in 1..Len(notes) :
       ~notes[i].convertedToTodo /\ handleConvertNoteToTodo(notes[i].content, now, suffix, TRUE)

\* handleAddNote, handleSaveEditNote and onDeleteNote of the page
IndexNoteHandler ==
  \/ \E now \in Later, content \in Texts, suffix \in RandomSuffixes :
       addNote(content, now, suffix, TRUE)
  \/ \E id \in Ids(notes), content \in Texts : updateNote(id, content, clock, TRUE)
  \/ \E id \in Ids(notes) : deleteNote(id, clock, TRUE)

NextIndex ==
  \/ IndexTodoHandler /\ UNCHANGED viewVars /\ Render
  \/ IndexNoteHandler /\ UNCHANGED viewVars /\ Render
  \/ (\E f \in FilterTypes : setFilter(f)) /\ UNCHANGED appVars /\ Render
  \/ (\E q \in IndexQueries : setSearchQuery(q)) /\ UNCHANGED appVars /\ Render
  \/ loadMore /\ PageFrame
  \/ showLess /\ PageFrame

SpecIndex == InitIndex /\ [][NextIndex]_vars

C23_NoteCreate ==
  [][\A content \in Texts, now \in Nows, suffix \in RandomSuffixes :
       addNote(content, now, suffix, TRUE)
       => IF Trim(content) = <<>>
          THEN last'.exit = "threw" /\ notes' = notes /\ storage' = storage
          ELSE /\ Len(notes') = Len(notes) + 1
               /\ notes'[1].content = Trim(content)
               /\ notes'[1].id \notin Ids(notes)
               /\ notes'[1].date = getTodayDate(now)
               /\ ~notes'[1].convertedToTodo
               /\ Tail(notes') = notes]_vars

\* C24 as stated: updateNote with a content that is empty after trimming
\* signals an error and leaves the list unchanged; otherwise exactly the note
\* with that identifier gets the trimmed content, keeping its position and its
\* convertedToTodo flag, and every other note is unchanged.
C24_NoteUpdateChangesExactlyOne ==
  [][\A id \in Ids(notes), content \in Texts, now \in Nows :
       updateNote(id, content, now, TRUE)
       => IF Trim(content) = <<>>
          THEN last'.exit = "threw" /\ notes' = notes /\ storage' = storage
          ELSE \E k \in 1..Len(notes) :
                 /\ notes[k].id = id
                 /\ Len(notes') = Len(notes)
                 /\ notes'[k].content = Trim(content)
                 /\ notes'[k].convertedToTodo = notes[k].convertedToTodo
                 /\ notes'[k].id = id
                 /\ \A i \in 1..Len(notes) : i # k => notes'[i] = notes[i]]_vars

\* C25 as stated: toggleTodo, editTodo, deleteTodo, updateNote, deleteNote and
\* markAsConverted with an identifier that no record of the list has leave
\* the two lists as they were and signal no error, whatever their other
\* arguments.
C25_AbsentIdIsSilentNoOp ==
  [][\A now \in Nows, text \in Texts :
       (\/ toggleTodo(AbsentId, now, TRUE)
        \/ editTodo(AbsentId, text, now, TRUE)
        \/ deleteTodo(AbsentId, now, TRUE)
        \/ updateNote(AbsentId, text, now, TRUE)
        \/ deleteNote(AbsentId, now, TRUE)
        \/ markAsConverted(AbsentId, now, TRUE))
       => (todos' = todos /\ notes' = notes /\ last'.exit # "threw")]_vars

\* C25, amended: with an identifier that no record of the list has, each of
\* the six operations leaves the two lists as they were; none signals an
\* error, except updateNote with a content that is empty after trimming,
\* which signals its error before it looks at the identifier.
C25_AbsentIdKeepsLists ==
  [][\A now \in Nows, text \in Texts :
       /\ (\/ toggleTodo(AbsentId, now, TRUE)
           \/ editTodo(AbsentId, text, now, TRUE)
           \/ deleteTodo(AbsentId, now, TRUE)
           \/ deleteNote(AbsentId, now, TRUE)
           \/ markAsConverted(AbsentId, now, TRUE))
          => (todos' = todos /\ notes' = notes /\ last'.exit # "threw")
       /\ updateNote(AbsentId, text, now, TRUE)
          => /\ todos' = todos /\ notes' = notes
             /\ last'.exit = "threw" <=> Trim(text) = <<>>]_vars

\* the two stored records fill the lists, so that no record was added or
\* removed, and the last handler has written the notes and left the stored
\* note as it was: it was called with an identifier no note has
C25_Witness ==
  /\ todos = <<StoredTodo>> /\ notes = <<StoredNote>>
  /\ last = Did("deleteNote", "set")
  /\ clock = MaxClock

(***************************************************************************)
(* NotesSearch: the notes that match what is typed into its search field.  *)
(***************************************************************************)
\* ["Minggu", "Senin", "Selasa", "Rabu", "Kamis", "Jumat", "Sabtu"]
Days ==
  << <<"M", "i", "n", "g", "g", "u">>, <<"S", "e", "n", "i", "n">>,
     <<"S", "e", "l", "a", "s", "a">>, <<"R", "a", "b", "u">>,
     <<"K", "a", "m", "i", "s">>, <<"J", "u", "m", "a", "t">>,
     <<"S", "a", "b", "t", "u">> >>

\* new Date(dateString + "T00:00:00").getDay() for the days of January 2025,
\* whose first day is a Wednesday
GetDay(dateString) == (ParseDigits(dateString, 9, 0).v.n + 2) % 7

\* days[date.getDay()]
getDayName(dateString) == Days[GetDay(dateString) + 1]

\* filteredNotes that searches for the query as typed, untrimmed
filteredNotesUntrimmed(l, q) ==
  IF Trim(q) = <<>> THEN l
  ELSE LET query == ToLowerCase(q)
       IN SelectSeq(l, LAMBDA note :
            \/ Includes(note.date, query)
            \/ Includes(ToLowerCase(getDayName(note.date)), query)
            \/ Includes(ToLowerCase(note.content), query))

\* if (!searchQuery.trim()) return notes;
\* const query = searchQuery.toLowerCase().trim();
\* notes.filter(note => note.date.includes(query)
\*   || getDayName(note.date).toLowerCase().includes(query)
\*   || note.content.toLowerCase().includes(query))
filteredNotes(l, q) ==
  IF Trim(q) = <<>> THEN l
  ELSE LET query == Trim(ToLowerCase(q))
       IN SelectSeq(l, LAMBDA note :
            \/ Includes(note.date, query)
            \/ Includes(ToLowerCase(getDayName(note.date)), query)
            \/ Includes(ToLowerCase(note.content), query))

\* what the user types into the search field of the notes
NoteQueries ==
  { <<>>, <<" ">>, <<" ", "R", "a", "B", " ">>, <<"0", "2">>, <<"B">>, <<"a">>, <<"u", "m">> }

\* setSearchQuery("")
handleClearSearch == setSearchQuery(<<>>)

NextSearch ==
  \/ (\E q \in NoteQueries : setSearchQuery(q)) /\ ViewFrame
  \/ handleClearSearch /\ ViewFrame
  \/ AddNote({TRUE}) /\ AppFrame
  \/ DeleteNote({TRUE}) /\ AppFrame

SpecSearch == Init /\ [][NextSearch]_vars

\* C27: a note matches a query exactly when the trimmed query, the case of
\* its letters ignored, occurs in the note's date string, in the weekday name
\* of that date or in the content; a query that is empty after trimming
\* matches every note, one that occurs in none of the three fields of any
\* note matches nothing; the matching notes are shown in the order of the list.
C27_NoteSearchMatches ==
  LET q == Trim(searchQuery)
      Match(n) == \/ q = <<>>
                  \/ Occurs(q, n.date)
                  \/ Occurs(q, getDayName(n.date))
                  \/ Occurs(q, n.content)
  IN filteredNotes(notes, searchQuery) = Kept(notes, {i \in 1..Len(notes) : Match(notes[i])})

\* of two notes, written on a Thursday and on a Wednesday, the search for
\* " RaB " finds the second alone, by its weekday
C27_Witness ==
  /\ searchQuery = <<" ", "R", "a", "B", " ">>
  /\ Len(notes) = 2
  /\ getDayName(notes[1].date) = Days[5] /\ getDayName(notes[2].date) = Days[4]
  /\ filteredNotes(notes, searchQuery) = <<notes[2]>>

(***************************************************************************)
(* Two mutations in one event handler.  The handler holds the addTodo and  *)
(* toggleTodo of one render; both call the setValue of that render, which  *)
(* computes value(storedValue) from the storedValue of that render.        *)
(***************************************************************************)
\* setValue called with each of the values in turn: setStoredValue(v), then
\* setItem(key, JSON.stringify(v)); the last call decides both
SetTodosInTurn(values) ==
  /\ todos' = values[Len(values)]
  /\ storage' = [storage EXCEPT !["todos"] = WriteItem(@, TodosToJSON(values[Len(values)]), TRUE)]
  /\ UNCHANGED <<notes, writeFailed>>

\* a handler that calls addTodo(text1) and then addTodo(text2)
addTodoTwice(text1, text2, now, suffix1, suffix2) ==
  /\ Room
  /\ clock' = now
  /\ LET first == IF Trim(text1) = <<>> THEN <<>>
                  ELSE <<AddTodoUpdate(todos, text1, now, suffix1)>>
         second == IF Trim(text2) = <<>> THEN <<>>
                   ELSE <<AddTodoUpdate(todos, text2, now, suffix2)>>
     IN IF first \o second = <<>>
        THEN NoCall /\ last' = Did("addTodo", "early")
        ELSE SetTodosInTurn(first \o second) /\ last' = Did("addTodo", "set")

\* a handler that calls addTodo(text) and then toggleTodo(id)
addTodoThenToggle(text, id, now, suffix) ==
  /\ Room
  /\ clock' = now
  /\ LET first == IF Trim(text) = <<>> THEN <<>>
                  ELSE <<AddTodoUpdate(todos, text, now, suffix)>>
     IN SetTodosInTurn(first \o <<ToggleTodoUpdate(todos, id, now)>>)
  /\ last' = Did("toggleTodo", "set")

NextBatch ==
  \/ (\E now \in Nows, text1, text2 \in Texts, suffix1, suffix2 \in RandomSuffixes :
        Untouched("notes") /\ addTodoTwice(text1, text2, now, suffix1, suffix2)) /\ AppFrame
  \/ (\E now \in Nows, text \in Texts, id \in IdArgs(todos), suffix \in RandomSuffixes :
        Untouched("notes") /\ addTodoThenToggle(text, id, now, suffix)) /\ AppFrame
  \/ AddTodo({TRUE}) /\ AppFrame
  \/ ToggleTodo({TRUE}) /\ AppFrame
  \/ DeleteTodo({TRUE}) /\ AppFrame

SpecBatch == Init /\ [][NextBatch]_vars

\* C28 as stated: when a handler issues two mutations before the view renders
\* again (addTodo twice, or addTodo and then toggleTodo), the list in memory
\* and the stored value afterwards are what the second mutation makes of the
\* result of the first.
C28_BothMutationsReflected ==
  [][\A now \in Nows, text1, text2 \in Texts \ {<<>>, <<" ">>},
        suffix1, suffix2 \in RandomSuffixes, id \in IdArgs(todos) :
       /\ addTodoTwice(text1, text2, now, suffix1, suffix2)
          => LET both == AddTodoUpdate(AddTodoUpdate(todos, text1, now, suffix1),
                                       text2, now, suffix2)
             IN /\ todos' = both
                /\ storage'["todos"] = WriteItem(storage["todos"], TodosToJSON(both), TRUE)
       /\ addTodoThenToggle(text1, id, now, suffix1)
          => LET both == ToggleTodoUpdate(AddTodoUpdate(todos, text1, now, suffix1), id, now)
             IN /\ todos' = both
                /\ storage'["todos"] = WriteItem(storage["todos"], TodosToJSON(both), TRUE)]_vars

====
